---------------------------- MODULE Spec2Model ----------------------------
(***************************************************************************)
(* The CHIP-8 engine of package chip (src/unnamed/part_000, the variant    *)
(* of src/chip/chip.go that main.go builds against): the Chip struct, its  *)
(* constructor New, LoadRom, and one iteration of Cycle, i.e. one call of  *)
(* nextOp followed by the conditional draw().                              *)
(*                                                                         *)
(* Go's byte and uint16 arithmetic is kept at its width (% 256, % 65536).  *)
(* A slice index out of range and the two panic("not implemented yet!")    *)
(* stubs end the process; the model records which in err and stops.        *)
(* main.go never calls KeyDown or KeyUp, so in a run of main keys and     *)
(* currentKey keep the values New gives them; KeyDown is an operator that  *)
(* the machines drawn for nextOp apply before the loop starts.             *)
(***************************************************************************)
EXTENDS Integers, Sequences, FiniteSets, TLC

VARIABLES
    memory,      \* Chip.memory  []byte, 4096 bytes
    display,     \* Chip.display []byte, 64x32 pixels
    stack,       \* Chip.stack   []uint16, 16 entries
    v,           \* Chip.v       []byte, 16 registers
    dt,          \* Chip.dt
    st,          \* Chip.st
    keys,        \* Chip.keys    []byte, 16 entries
    i,           \* Chip.i       uint16
    pc,          \* Chip.pc      uint16
    sp,          \* Chip.sp      byte
    currentKey,  \* Chip.currentKey
    drawFlag,    \* Chip.drawFlag
    err,         \* outcome of the last nextOp in Cycle: "nil", the returned
                 \* error, or the runtime panic that ended the process
    opcode,      \* nextOp's local opcode, as last fetched
    rendered,    \* whether the last iteration of Cycle called draw()
    rom,         \* the byte image handed to LoadRom
    steps,       \* iterations of Cycle's loop so far
    horizon      \* iterations of Cycle's loop the exploration follows

vars == <<memory, display, stack, v, dt, st, keys, i, pc, sp, currentKey,
          drawFlag, err, opcode, rendered, rom, steps, horizon>>

chipVars == <<memory, display, stack, v, dt, st, keys, i, pc, sp, currentKey,
              drawFlag>>

---------------------------------------------------------------------------
(* Sizes and widths *)

MemorySize == 4096
DisplaySize == 2048
StackSize == 16
NumRegs == 16
NumKeys == 16
RomBase == 512
ByteMod == 256
WordMod == 65536

(* Bounds of the model *)

\* iterations of Cycle explored from a freshly loaded machine
MaxSteps == 17
\* iterations of Cycle explored from each drawn machine state
MaxOpSteps == 2
\* the operand values drawn are 0..MaxLow and the edge values 127, 128, 255
MaxLow == 3

\* operand values: the small ones and the edges of the byte range
Operands == (0..MaxLow) \cup {127, 128, 255}

\* the values of rand.Intn(256) that are explored
RandomBytes == Operands

---------------------------------------------------------------------------
(* Bit operations on unsigned integers of n bits *)

RECURSIVE AndN(_, _, _)
AndN(a, b, n) ==
    IF n = 0 THEN 0
    ELSE (a % 2) * (b % 2) + 2 * AndN(a \div 2, b \div 2, n - 1)

RECURSIVE OrN(_, _, _)
OrN(a, b, n) ==
    IF n = 0 THEN 0
    ELSE (IF (a % 2) + (b % 2) > 0 THEN 1 ELSE 0)
         + 2 * OrN(a \div 2, b \div 2, n - 1)

RECURSIVE XorN(_, _, _)
XorN(a, b, n) ==
    IF n = 0 THEN 0
    ELSE (((a % 2) + (b % 2)) % 2) + 2 * XorN(a \div 2, b \div 2, n - 1)

RECURSIVE Shr(_, _)
Shr(a, k) == IF k = 0 THEN a ELSE Shr(a \div 2, k - 1)

RECURSIVE Shl(_, _)
Shl(a, k) == IF k = 0 THEN a ELSE Shl(a * 2, k - 1)

---------------------------------------------------------------------------
(* New *)

fontSet ==
    << 240, 144, 144, 144, 240,
        32,  96,  32,  32, 112,
       240,  16, 240, 128, 240,
       240,  16, 240,  16, 240,
       144, 144, 240,  16,  16,
       240, 128, 240,  16, 240,
       240, 128, 240, 144, 240,
       240,  16,  32,  64,  64,
       240, 144, 240, 144, 240,
       240, 144, 240,  16, 240,
       240, 144, 240, 144, 144,
       224, 144, 224, 144, 224,
       240, 128, 128, 128, 240,
       224, 144, 144, 144, 224,
       240, 128, 240, 128, 240,
       240, 128, 240, 128, 128 >>

NewMemory ==
    [a \in 0..(MemorySize - 1) |-> IF a < Len(fontSet) THEN fontSet[a + 1] ELSE 0]

NewPC == 512

\* whether LoadRom returns: every index 0x200+i is inside memory
LoadRomReturns(image) == RomBase + Len(image) <= MemorySize

\* the bytes LoadRom's loop stores: all of them, or those before the first
\* index outside memory, where the loop panics
Copied(image) ==
    IF LoadRomReturns(image) THEN Len(image) ELSE MemorySize - RomBase

\* LoadRom: for i, b := range rom { c.memory[0x200+i] = b }, as the memory
\* the loop leaves: the stored bytes over the memory it started from
LoadRom(mem, image) ==
    [a \in RomBase..(RomBase + Copied(image) - 1) |-> image[a - RomBase + 1]] @@ mem

---------------------------------------------------------------------------
(* KeyDown *)

\* keyMap; a rune that is no key of the map reads as the zero value
keyMap(char) ==
    CASE char = "1" -> 1  [] char = "2" -> 2  [] char = "3" -> 3
      [] char = "4" -> 4  [] char = "Q" -> 5  [] char = "W" -> 6
      [] char = "E" -> 7  [] char = "R" -> 8  [] char = "A" -> 9
      [] char = "S" -> 10 [] char = "D" -> 11 [] char = "F" -> 12
      [] char = "Z" -> 13 [] char = "X" -> 14 [] char = "C" -> 15
      [] char = "V" -> 16 [] OTHER -> 0

\* KeyDown(char): c.keys[idx] = 1; c.currentKey = idx
KeyDown(ks, char) ==
    [keys |-> [ks EXCEPT ![keyMap(char)] = 1], currentKey |-> keyMap(char)]

---------------------------------------------------------------------------
(* nextOp: fetch and decode *)

\* a loop that goes on after a failed nextOp
RunningPastErrors == steps < horizon

\* the loop of Cycle runs while no nextOp has failed and the process lives
Running == err = "nil" /\ steps < horizon

\* memory[pc] and memory[pc+1] are both inside the slice
FetchInRange == pc < MemorySize /\ (pc + 1) % WordMod < MemorySize

\* opcode := uint16(c.memory[pc])<<8 | uint16(c.memory[pc+1])
Opcode == memory[pc] * 256 + memory[(pc + 1) % WordMod]

\* opcode & 0xF000: the word without its low 12 bits
Family == Opcode - (Opcode % \h1000)

\* opcode & 0x0FFF: the low 12 bits
Addr == Opcode % \h1000

\* opcode & 0x00FF: the low 8 bits
LowByte == Opcode % \h100

\* opcode & 0x000F: the low 4 bits
LowNibble == Opcode % \h10

\* c.memory[pc+1], the immediate kk
Imm == memory[(pc + 1) % WordMod]

\* x := c.memory[pc] & 0x0F
RegX == memory[pc] % \h10

\* y := (c.memory[pc+1] & 0xF0) >> 2, also spelled c.memory[pc+1] & 0xF0 >> 2
\* (Go gives & and >> one precedence): the byte without its low 4 bits,
\* shifted right by two
RegY == (Imm - (Imm % \h10)) \div 4

\* whether c.v[y] indexes inside the 16 registers
RegYInRange == RegY < NumRegs

Fetch(family) == Running /\ FetchInRange /\ Family = family

---------------------------------------------------------------------------
(* The rest of one iteration of Cycle after nextOp *)

\* nextOp returned e (or panicked with e); draw() runs when it returned nil
\* and drawFlag is set
Done(e) ==
    /\ err' = e
    /\ opcode' = Opcode
    /\ rendered' = (e = "nil" /\ drawFlag')
    /\ steps' = steps + 1
    /\ UNCHANGED <<rom, horizon>>

\* nextOp ends with e (a returned error or a runtime panic) before the
\* instruction wrote anything
Fail(e) == UNCHANGED chipVars /\ Done(e)

\* the instruction only wrote registers
OnlyRegs(newv) ==
    /\ v' = newv
    /\ UNCHANGED <<memory, display, stack, dt, st, keys, i, pc, sp,
                   currentKey, drawFlag>>
    /\ Done("nil")

\* the instruction only wrote the program counter
OnlyPC(newpc) ==
    /\ pc' = newpc
    /\ UNCHANGED <<memory, display, stack, v, dt, st, keys, i, sp,
                   currentKey, drawFlag>>
    /\ Done("nil")

\* if cond { c.pc += 2 }
SkipIf(cond) == OnlyPC(IF cond THEN (pc + 2) % WordMod ELSE pc)

\* the fetch itself indexes outside memory
FetchFault ==
    /\ Running
    /\ ~FetchInRange
    /\ UNCHANGED chipVars
    /\ err' = "IndexOutOfRange"
    /\ opcode' = opcode
    /\ rendered' = FALSE
    /\ steps' = steps + 1
    /\ UNCHANGED <<rom, horizon>>

---------------------------------------------------------------------------
(* nextOp: family 0x0000 *)

\* clearDisplay
ClearedDisplay == [c \in 0..(DisplaySize - 1) |-> 0]

\* a CLS that clears the first 256 cells only
clearFirstPage == [c \in DOMAIN display |-> IF c < ByteMod THEN 0 ELSE display[c]]

\* clearDisplay: for i := range c.display { c.display[i] = 0 }
clearDisplay == [c \in DOMAIN display |-> 0]

\* CLS (00E0)
OpCLS ==
    /\ Fetch(\h0000)
    /\ Addr = \h00E0
    /\ display' = clearDisplay
    /\ drawFlag' = TRUE
    /\ UNCHANGED <<memory, stack, v, dt, st, keys, i, pc, sp, currentKey>>
    /\ Done("nil")

\* RET (00EE): c.pc = c.stack[c.sp]; c.sp--
OpRET ==
    /\ Fetch(\h0000)
    /\ Addr = \h00EE
    /\ IF sp < StackSize
       THEN /\ pc' = stack[sp]
            /\ sp' = (sp - 1) % ByteMod
            /\ UNCHANGED <<memory, display, stack, v, dt, st, keys, i,
                           currentKey, drawFlag>>
            /\ Done("nil")
       ELSE Fail("IndexOutOfRange")

\* SYS addr (0nnn): the default branch only breaks
OpSYS ==
    /\ Fetch(\h0000)
    /\ Addr # \h00E0
    /\ Addr # \h00EE
    /\ UNCHANGED chipVars
    /\ Done("nil")

---------------------------------------------------------------------------
(* nextOp: jumps, calls and skips *)

\* JP addr (1nnn)
OpJP == Fetch(\h1000) /\ OnlyPC(Addr)

\* CALL addr (2nnn): c.sp++; c.stack[c.sp] = c.pc; c.pc = opcode & 0x0FFF
OpCALL ==
    /\ Fetch(\h2000)
    /\ sp' = (sp + 1) % ByteMod
    /\ UNCHANGED <<memory, display, v, dt, st, keys, i, currentKey, drawFlag>>
    /\ IF sp' < StackSize
       THEN /\ stack' = [stack EXCEPT ![sp'] = pc]
            /\ pc' = Addr
            /\ Done("nil")
       ELSE /\ UNCHANGED <<stack, pc>>
            /\ Done("IndexOutOfRange")

\* SE Vx, byte (3xkk)
OpSE == Fetch(\h3000) /\ SkipIf(v[RegX] = Imm)

\* SNE Vx, byte (4xkk)
OpSNE == Fetch(\h4000) /\ SkipIf(v[RegX] # Imm)

\* SE Vx, Vy (5xy0)
OpSEreg ==
    /\ Fetch(\h5000)
    /\ IF RegYInRange THEN SkipIf(v[RegX] = v[RegY])
       ELSE Fail("IndexOutOfRange")

\* SNE Vx, Vy (9xy0)
OpSNEreg ==
    /\ Fetch(\h9000)
    /\ IF RegYInRange THEN SkipIf(v[RegX] # v[RegY])
       ELSE Fail("IndexOutOfRange")

\* JP V0, addr (Bnnn)
OpJPV0 == Fetch(\hB000) /\ OnlyPC((Addr + v[0]) % WordMod)

---------------------------------------------------------------------------
(* nextOp: loads and arithmetic *)

\* LD Vx, byte (6xkk)
OpLD == Fetch(\h6000) /\ OnlyRegs([v EXCEPT ![RegX] = Imm])

\* ADD Vx, byte (7xkk): c.v[x] += c.memory[pc+1]
OpADD == Fetch(\h7000) /\ OnlyRegs([v EXCEPT ![RegX] = (v[RegX] + Imm) % ByteMod])

\* an 8xy_ instruction that indexes c.v[y] before it writes anything
RegOp(low, newv) ==
    /\ Fetch(\h8000)
    /\ LowNibble = low
    /\ IF RegYInRange THEN OnlyRegs(newv) ELSE Fail("IndexOutOfRange")

\* LD Vx, Vy (8xy0)
OpLDreg == RegOp(0, [v EXCEPT ![RegX] = v[RegY]])

\* OR Vx, Vy (8xy1)
OpOR == RegOp(1, [v EXCEPT ![RegX] = OrN(v[RegX], v[RegY], 8)])

\* AND Vx, Vy (8xy2)
OpAND == RegOp(2, [v EXCEPT ![RegX] = AndN(v[RegX], v[RegY], 8)])

\* XOR Vx, Vy (8xy3)
OpXOR == RegOp(3, [v EXCEPT ![RegX] = XorN(v[RegX], v[RegY], 8)])

\* if temp > 0xFF { c.v[0xF] = 1 } else { c.v[0xF] = 0 }
AddFlag(a, b) == IF a + b > \hFF THEN 1 ELSE 0

\* ADD Vx, Vy (8xy4): temp is read before VF is written, Vx is written last
AddRegs(regs, x, y) ==
    LET temp == regs[x] + regs[y]
        flagged == [regs EXCEPT ![\hF] = AddFlag(regs[x], regs[y])]
    IN  [flagged EXCEPT ![x] = temp % ByteMod]

OpADDreg == RegOp(4, AddRegs(v, RegX, RegY))

\* if c.v[x] > c.v[y] { c.v[0xF] = 1 } else { c.v[0xF] = 0 }
SubFlag(a, b) == IF a > b THEN 1 ELSE 0

\* SUB Vx, Vy (8xy5): VF is written first, then c.v[x] = c.v[x] - c.v[y]
SubRegs(regs, x, y) ==
    LET flagged == [regs EXCEPT ![\hF] = SubFlag(regs[x], regs[y])]
    IN  [flagged EXCEPT ![x] = (flagged[x] - flagged[y]) % ByteMod]

OpSUB == RegOp(5, SubRegs(v, RegX, RegY))

\* SUBN Vx, Vy (8xy7): VF is written first, then c.v[x] = c.v[y] - c.v[x]
SubnRegs(regs, x, y) ==
    LET flagged == [regs EXCEPT ![\hF] = SubFlag(regs[y], regs[x])]
    IN  [flagged EXCEPT ![x] = (flagged[y] - flagged[x]) % ByteMod]

OpSUBN == RegOp(7, SubnRegs(v, RegX, RegY))

\* a slip in the mask of SHR's test: bit 1 is compared with 1, which never
\* holds
ShrFlagWrongMask(a) == IF AndN(a, 2, 8) = 1 THEN 1 ELSE 0

\* if c.v[x]&0b00000001 == 1 { c.v[0xF] = 1 } else { c.v[0xF] = 0 }
ShrFlag(a) == IF AndN(a, 1, 8) = 1 THEN 1 ELSE 0

\* SHR Vx (8xy6): VF is written first, then c.v[x] >>= 1
ShrRegs(regs, x) ==
    LET flagged == [regs EXCEPT ![\hF] = ShrFlag(regs[x])]
    IN  [flagged EXCEPT ![x] = Shr(flagged[x], 1)]

OpSHR == Fetch(\h8000) /\ LowNibble = 6 /\ OnlyRegs(ShrRegs(v, RegX))

\* if c.v[x]&0b10000000 == 1 { c.v[0xF] = 1 } else { c.v[0xF] = 0 }
ShlFlag(a) == IF AndN(a, \h80, 8) = 1 THEN 1 ELSE 0

\* SHL Vx (8xyE): VF is written first, then c.v[x] <<= 1
ShlRegs(regs, x) ==
    LET flagged == [regs EXCEPT ![\hF] = ShlFlag(regs[x])]
    IN  [flagged EXCEPT ![x] = Shl(flagged[x], 1) % ByteMod]

OpSHL == Fetch(\h8000) /\ LowNibble = \hE /\ OnlyRegs(ShlRegs(v, RegX))

\* the low nibbles the 8xy_ switch has a case for
RegOpNibbles == {0, 1, 2, 3, 4, 5, 6, 7, \hE}

\* 8xy_ default: return unrecognizedOpcode(opcode)
OpRegUnrecognized ==
    /\ Fetch(\h8000)
    /\ LowNibble \notin RegOpNibbles
    /\ Fail("UnrecognizedOpcode")

\* LD I, addr (Annn)
OpLDI ==
    /\ Fetch(\hA000)
    /\ i' = Addr
    /\ UNCHANGED <<memory, display, stack, v, dt, st, keys, pc, sp,
                   currentKey, drawFlag>>
    /\ Done("nil")

\* RND Vx, byte (Cxkk): byte(rand.Intn(256)) & kk
OpRND ==
    /\ Fetch(\hC000)
    /\ \E r \in RandomBytes : OnlyRegs([v EXCEPT ![RegX] = AndN(r, Imm, 8)])

---------------------------------------------------------------------------
(* nextOp: DRW and displaySprite *)

\* displaySprite's two loops from pixel k = q*8 + p on; x, y, ib and n are its
\* byte parameters, disp and flag the display and VF so far
\* the address displaySprite reads row q from: i + q on bytes
SpriteAddr(ib, q) == (ib + q) % ByteMod

RECURSIVE Blit(_, _, _, _, _, _, _)
Blit(disp, flag, x, y, ib, n, k) ==
    IF k >= n * 8 THEN [display |-> disp, vf |-> flag]
    ELSE LET q == k \div 8
             p == k % 8
             pix == AndN(memory[SpriteAddr(ib, q)], Shr(\h80, p), 8)
             ty0 == (y + q) % ByteMod
             ty == IF ty0 >= 32 THEN ty0 - 32 ELSE ty0
             cell == (((ty * 64) % ByteMod) + x) % ByteMod
         IN  IF pix # 0
             THEN Blit([disp EXCEPT ![cell] = XorN(@, 1, 8)],
                       IF disp[cell] = 1 THEN 1 ELSE flag,
                       x, y, ib, n, k + 1)
             ELSE Blit(disp, flag, x, y, ib, n, k + 1)

\* displaySprite(x, y, i, n): c.v[0xF] = 0, the loops, c.drawFlag = true
displaySprite(x, y, ib, n) == Blit(display, 0, x, y, ib, n, 0)

\* DRW Vx, Vy, nibble (Dxyn):
\* c.displaySprite(c.v[x], c.v[y], byte(c.i), byte(n))
OpDRW ==
    /\ Fetch(\hD000)
    /\ IF RegYInRange
       THEN LET drawn == displaySprite(v[RegX], v[RegY], i % ByteMod,
                                       Imm % \h10)
            IN  /\ display' = drawn.display
                /\ v' = [v EXCEPT ![\hF] = drawn.vf]
                /\ drawFlag' = TRUE
                /\ UNCHANGED <<memory, stack, dt, st, keys, i, pc, sp,
                               currentKey>>
                /\ Done("nil")
       ELSE Fail("IndexOutOfRange")

---------------------------------------------------------------------------
(* nextOp: family 0xE000; isPressed is panic("not implemented yet!") *)

\* SKP Vx (Ex9E)
OpSKP == Fetch(\hE000) /\ LowByte = \h9E /\ Fail("NotImplemented")

\* SKNP Vx (ExA1)
OpSKNP == Fetch(\hE000) /\ LowByte = \hA1 /\ Fail("NotImplemented")

\* Ex__ default
OpKeyUnrecognized ==
    /\ Fetch(\hE000)
    /\ LowByte \notin {\h9E, \hA1}
    /\ Fail("UnrecognizedOpcode")

---------------------------------------------------------------------------
(* nextOp: family 0xF000 *)

FetchF(low) == Fetch(\hF000) /\ LowByte = low

\* LD Vx, DT (Fx07)
OpLDVxDT == FetchF(\h07) /\ OnlyRegs([v EXCEPT ![RegX] = dt])

\* LD Vx, K (Fx0A): waitKey is panic("not implemented yet!")
OpLDVxK == FetchF(\h0A) /\ Fail("NotImplemented")

\* LD DT, Vx (Fx15)
OpLDDT ==
    /\ FetchF(\h15)
    /\ dt' = v[RegX]
    /\ UNCHANGED <<memory, display, stack, v, st, keys, i, pc, sp,
                   currentKey, drawFlag>>
    /\ Done("nil")

\* LD ST, Vx (Fx18)
OpLDST ==
    /\ FetchF(\h18)
    /\ st' = v[RegX]
    /\ UNCHANGED <<memory, display, stack, v, dt, keys, i, pc, sp,
                   currentKey, drawFlag>>
    /\ Done("nil")

\* the instruction only wrote I
OnlyI(newi) ==
    /\ i' = newi
    /\ UNCHANGED <<memory, display, stack, v, dt, st, keys, pc, sp,
                   currentKey, drawFlag>>
    /\ Done("nil")

\* ADD I, Vx (Fx1E): c.i += uint16(c.v[x])
OpADDI == FetchF(\h1E) /\ OnlyI((i + v[RegX]) % WordMod)

\* LD F, Vx (Fx29): c.i = uint16(c.v[x]) * 5
OpLDF == FetchF(\h29) /\ OnlyI((v[RegX] * 5) % WordMod)

\* the address c.i+k in uint16 arithmetic
IAddr(k) == (i + k) % WordMod

\* LD B, Vx (Fx33): memory[i+2], memory[i+1], memory[i] are written in that
\* order; the first index outside memory panics and keeps the earlier writes
OpLDB ==
    /\ FetchF(\h33)
    /\ UNCHANGED <<display, stack, v, dt, st, keys, i, pc, sp, currentKey,
                   drawFlag>>
    /\ LET val == v[RegX]
           m2 == [memory EXCEPT ![IAddr(2)] = val % 10]
           m1 == [m2 EXCEPT ![IAddr(1)] = (val \div 10) % 10]
           m0 == [m1 EXCEPT ![IAddr(0)] = ((val \div 10) \div 10) % 10]
       IN  IF IAddr(2) >= MemorySize
           THEN memory' = memory /\ Done("IndexOutOfRange")
           ELSE IF IAddr(1) >= MemorySize
           THEN memory' = m2 /\ Done("IndexOutOfRange")
           ELSE IF IAddr(0) >= MemorySize
           THEN memory' = m1 /\ Done("IndexOutOfRange")
           ELSE memory' = m0 /\ Done("nil")

\* how many rounds of the loop for i := 0; i <= last; i++ complete before
\* c.i+i indexes outside memory
RoundsInRange(last) ==
    IF \E k \in 0..last : IAddr(k) >= MemorySize
    THEN CHOOSE k \in 0..last :
            /\ IAddr(k) >= MemorySize
            /\ \A j \in 0..(k - 1) : IAddr(j) < MemorySize
    ELSE last + 1

\* the loop of Fx55 from round k on, over the first `done` rounds
RECURSIVE StoreRegs(_, _, _)
StoreRegs(mem, done, k) ==
    IF k >= done THEN mem
    ELSE StoreRegs([mem EXCEPT ![IAddr(k)] = v[k]], done, k + 1)

\* LD [I], Vx (Fx55): c.memory[c.i+i] = c.v[i] for i = 0..x
OpLDIVx ==
    /\ FetchF(\h55)
    /\ UNCHANGED <<display, stack, v, dt, st, keys, i, pc, sp, currentKey,
                   drawFlag>>
    /\ LET done == RoundsInRange(RegX)
       IN  /\ memory' = StoreRegs(memory, done, 0)
           /\ Done(IF done = RegX + 1 THEN "nil" ELSE "IndexOutOfRange")

\* LD Vx, [I] (Fx65): c.v[i] = c.memory[c.i+i] for i = 0..x
OpLDVxI ==
    /\ FetchF(\h65)
    /\ UNCHANGED <<memory, display, stack, dt, st, keys, i, pc, sp,
                   currentKey, drawFlag>>
    /\ LET done == RoundsInRange(RegX)
       IN  /\ v' = [r \in 0..(NumRegs - 1) |->
                       IF r < done THEN memory[IAddr(r)] ELSE v[r]]
           /\ Done(IF done = RegX + 1 THEN "nil" ELSE "IndexOutOfRange")

\* the low bytes the Fx__ switch has a case for
FOpBytes == {\h07, \h0A, \h15, \h18, \h1E, \h29, \h33, \h55, \h65}

\* Fx__ default
OpFUnrecognized ==
    /\ Fetch(\hF000)
    /\ LowByte \notin FOpBytes
    /\ Fail("UnrecognizedOpcode")

---------------------------------------------------------------------------
(* The machines explored *)

\* the two bytes of an instruction word, high byte first
WordRom(w) == <<w \div 256, w % 256>>

\* instruction words: every case of nextOp's switches, with the register
\* selectors 0, 1, 4 and F and the words no case names
Words ==
    { \h00E0, \h00EE, \h0000, \h0123,
      \h1200, \h1204, \h1FFF, \h2200, \h2204,
      \h3000, \h3001, \h3103, \h4000, \h4001,
      \h5000, \h5010, \h5040, \h5011,
      \h6005, \h61FF, \h6F01, \h7001, \h70FF, \h7F01,
      \h9000, \h9010, \h9040, \h9011,
      \hA000, \hA123, \hAFFE, \hB200, \hBFFF,
      \hC000, \hC003, \hCF81,
      \hD001, \hD005, \hD015, \hD045,
      \hE09E, \hE0A1, \hE000,
      \hF007, \hF00A, \hF015, \hF018, \hF11E, \hF029, \hF129,
      \hF033, \hF133, \hF055, \hFF55, \hF065, \hFF65, \hF000, \hF0FF }
    \cup { \h8000 + xy + low : xy \in {\h000, \h010, \h100, \hF00, \h040},
                               low \in RegOpNibbles \cup {\h8, \hF} }

\* LD V0,5; LD V1,3; ADD V0,V1
RomAdd == <<\h60, \h05, \h61, \h03, \h80, \h14>>

\* CALL 0x202; RET
RomCallRet == <<\h22, \h02, \h00, \hEE>>

\* SE V0,0; (skipped); JP 0x200
RomSkip == <<\h30, \h00, \h00, \h00, \h12, \h00>>

\* an image one byte longer than the room above 0x200
RomOversized == [k \in 1..(MemorySize - RomBase + 1) |-> 1 + (k % 255)]

Roms ==
    { WordRom(w) : w \in Words } \cup { RomAdd, RomCallRet, RomSkip, RomOversized }


\* a register file holding a in the even registers and b in the odd ones
Regs(a, b) == [r \in 0..(NumRegs - 1) |-> IF r % 2 = 0 THEN a ELSE b]

\* a framebuffer with sprites drawn on it: every third cell is lit
LitDisplay == [c \in 0..(DisplaySize - 1) |-> IF c % 3 = 0 THEN 1 ELSE 0]

\* the machine as New leaves it: I = 0, a clear framebuffer, no key down,
\* timers 0
Fresh == [i |-> 0, lit |-> FALSE, key |-> "", timer |-> 0]

\* machines in the middle of a program: I points at the program or at the
\* end of memory, sprites have been drawn (so drawFlag is set, and nothing
\* clears it), KeyDown('1') has been called and the timers have been set
Machines ==
    { Fresh,
      [i |-> RomBase, lit |-> TRUE, key |-> "1", timer |-> 2],
      [i |-> MemorySize - 2, lit |-> TRUE, key |-> "1", timer |-> 2] }

NoKeys == [k \in 0..(NumKeys - 1) |-> 0]

\* New, then LoadRom(image), with the machine m, the register file regs and
\* h iterations; a LoadRom that panics ends the program before Cycle
Loaded(image, m, regs, h) ==
    /\ rom = image
    /\ memory = LoadRom(NewMemory, image)
    /\ display = IF m.lit THEN LitDisplay ELSE ClearedDisplay
    /\ stack = [s \in 0..(StackSize - 1) |-> 0]
    /\ v = regs
    /\ dt = m.timer
    /\ st = m.timer
    /\ keys = IF m.key = "" THEN NoKeys ELSE KeyDown(NoKeys, m.key).keys
    /\ i = m.i
    /\ pc = NewPC
    /\ sp = 0
    /\ currentKey = IF m.key = "" THEN 0 ELSE KeyDown(NoKeys, m.key).currentKey
    /\ drawFlag = m.lit
    /\ err = IF LoadRomReturns(image) THEN "nil" ELSE "IndexOutOfRange"
    /\ opcode = 0
    /\ rendered = FALSE
    /\ steps = 0
    /\ horizon = h

\* main: chip.New(screen), chip.LoadRom(rom), chip.Cycle()
Init == \E image \in Roms : Loaded(image, Fresh, Regs(0, 0), MaxSteps)

\* nextOp as a function of the machine state: the registers are drawn too,
\* two values on a fresh machine and one value on the others
InitOp ==
    \E image \in Roms, m \in Machines, a \in Operands, b \in Operands :
        /\ m # Fresh => a = b
        /\ Loaded(image, m, Regs(a, b), MaxOpSteps)

Next ==
    \/ FetchFault
    \/ OpCLS
    \/ OpRET
    \/ OpSYS
    \/ OpJP
    \/ OpCALL
    \/ OpSE
    \/ OpSNE
    \/ OpSEreg
    \/ OpLD
    \/ OpADD
    \/ OpLDreg
    \/ OpOR
    \/ OpAND
    \/ OpXOR
    \/ OpADDreg
    \/ OpSUB
    \/ OpSHR
    \/ OpSUBN
    \/ OpSHL
    \/ OpRegUnrecognized
    \/ OpSNEreg
    \/ OpLDI
    \/ OpJPV0
    \/ OpRND
    \/ OpDRW
    \/ OpSKP
    \/ OpSKNP
    \/ OpKeyUnrecognized
    \/ OpLDVxDT
    \/ OpLDVxK
    \/ OpLDDT
    \/ OpLDST
    \/ OpADDI
    \/ OpLDF
    \/ OpLDB
    \/ OpLDIVx
    \/ OpLDVxI
    \/ OpFUnrecognized

Spec == Init /\ [][Next]_vars

SpecOp == InitOp /\ [][Next]_vars

\* the machines whose timers have been set, with 1 in every register
InitTimed ==
    \E image \in Roms, m \in Machines :
        /\ m.timer > 0
        /\ Loaded(image, m, Regs(1, 1), MaxOpSteps)

\* Cycle's loop is a for with no exit: an iteration that can run does run
SpecTimed == InitTimed /\ [][Next]_vars /\ WF_vars(Next)

---------------------------------------------------------------------------
(* The instruction table of the specification, used to state the claims *)

\* an iteration of Cycle is about to fetch an instruction word
Stepping == Running /\ FetchInRange

\* the register selectors by their 4-bit fields: x is bits 11..8 of the word,
\* y is bits 7..4
FieldX == (Opcode \div 256) % 16

FieldY == (Opcode \div 16) % 16

\* JP, CALL, RET and JP V0: the instructions that set PC themselves
IsControlFlow ==
    \/ Family \in {\h1000, \h2000, \hB000}
    \/ Opcode = \h00EE

\* a conditional skip whose condition holds
SkipHolds ==
    \/ Family = \h3000 /\ v[FieldX] = Imm
    \/ Family = \h4000 /\ v[FieldX] # Imm
    \/ Family = \h5000 /\ v[FieldX] = v[FieldY]
    \/ Family = \h9000 /\ v[FieldX] # v[FieldY]
    \/ Family = \hE000 /\ LowByte = \h9E /\ v[FieldX] < NumKeys
                       /\ keys[v[FieldX]] = 1
    \/ Family = \hE000 /\ LowByte = \hA1 /\ v[FieldX] < NumKeys
                       /\ keys[v[FieldX]] # 1

\* the words of the instruction table
IsDefinedWord ==
    \/ Opcode \in {\h00E0, \h00EE}
    \/ Family \in {\h1000, \h2000, \h3000, \h4000, \h6000, \h7000,
                   \hA000, \hB000, \hC000, \hD000}
    \/ Family \in {\h5000, \h9000} /\ LowNibble = 0
    \/ Family = \h8000 /\ LowNibble \in {0, 1, 2, 3, 4, 5, 6, 7, \hE}
    \/ Family = \hE000 /\ LowByte \in {\h9E, \hA1}
    \/ Family = \hF000
        /\ LowByte \in {\h07, \h0A, \h15, \h18, \h1E, \h29, \h33, \h55, \h65}

\* the instructions with a second register operand
HasRegY == Family \in {\h5000, \h8000, \h9000, \hD000}

\* the registers other than x and VF keep their values
OtherRegsKept(x) ==
    \A r \in 0..(NumRegs - 1) : r \notin {x, \hF} => v'[r] = v[r]

---------------------------------------------------------------------------
(* Claims *)

\* C1: a step that executes an instruction other than a jump, call or return
\* leaves PC = PC + 2, or PC + 4 when the instruction is a conditional skip
\* whose condition holds.
C1_PcAdvance ==
    [][(Stepping /\ err' = "nil" /\ ~IsControlFlow)
        => pc' = (pc + (IF SkipHolds THEN 4 ELSE 2)) % WordMod]_vars

\* C2: with the ROM 60 05 61 03 80 14 loaded into a fresh engine, three steps
\* leave V0 = 8, V1 = 3, VF = 0 and PC = 0x206.
C2_EndToEnd ==
    (rom = RomAdd /\ horizon = MaxSteps /\ steps = 3)
        => (v[0] = 8 /\ v[1] = 3 /\ v[\hF] = 0 /\ pc = \h206 /\ err = "nil")

\* C3: from an empty stack, each of the first 16 nested CALLs succeeds,
\* increments SP by 1, pushes the pre-call PC and sets PC = nnn, and the 17th
\* yields StackOverflow; a RET on a non-empty stack decrements SP by 1 and
\* sets PC to the popped value.
C3_CallRet ==
    [][/\ (Stepping /\ Family = \h2000 /\ sp < StackSize)
            => /\ err' = "nil"
               /\ sp' = sp + 1
               /\ sp' \in DOMAIN stack' => stack'[sp'] = pc
               /\ pc' = Addr
       /\ (Stepping /\ Family = \h2000 /\ sp = StackSize)
            => err' = "StackOverflow"
       /\ (Stepping /\ Opcode = \h00EE /\ sp \in 1..StackSize)
            => /\ err' = "nil"
               /\ sp' = sp - 1
               /\ sp \in DOMAIN stack => pc' = stack[sp]]_vars

\* C4: SP stays within 0..15 in every state; a RET on the empty stack is a
\* StackUnderflow fault that leaves SP and PC alone, and a CALL with every
\* slot in use is a StackOverflow fault.
C4_StackBounds ==
    [][/\ sp' \in 0..(StackSize - 1)
       /\ (Stepping /\ Opcode = \h00EE /\ sp = 0)
            => (err' = "StackUnderflow" /\ sp' = sp /\ pc' = pc)
       /\ (Stepping /\ Family = \h2000 /\ sp = StackSize - 1)
            => (err' = "StackOverflow" /\ sp' = sp /\ pc' = pc)]_vars

\* C5: a step on a word that is in no family or subfamily of the instruction
\* table returns UnrecognizedOpcode and executes nothing.
C5_Unrecognized ==
    [][(Stepping /\ ~IsDefinedWord)
        => (err' = "UnrecognizedOpcode" /\ UNCHANGED chipVars)]_vars

\* C6: for a word with a second register operand, the register used as Vy is
\* bits 7..4 of the word, so it is in 0..15, and the one used as Vx is bits
\* 11..8.
C6_RegisterFields ==
    (Stepping /\ HasRegY)
        => (RegY = FieldY /\ RegY \in 0..(NumRegs - 1) /\ RegX = FieldX)

\* C7: ADD Vx,Vy leaves VF = 1 iff Vx + Vy > 255, else 0, for every x, leaves
\* Vx = (Vx + Vy) mod 256, and changes no other register.
C7_AddCarry ==
    [][(Stepping /\ Family = \h8000 /\ LowNibble = 4)
        => LET a == v[FieldX]
               b == v[FieldY]
           IN  /\ err' = "nil"
               /\ v'[\hF] = (IF a + b > 255 THEN 1 ELSE 0)
               /\ FieldX # \hF => v'[FieldX] = (a + b) % 256
               /\ OtherRegsKept(FieldX)]_vars

\* C8: SUB Vx,Vy leaves VF = 1 iff Vx >= Vy and Vx = (Vx - Vy) mod 256; SUBN
\* Vx,Vy leaves VF = 1 iff Vy >= Vx and Vx = (Vy - Vx) mod 256; both from the
\* operand values held before the flag is written.
C8_SubBorrow ==
    [][/\ (Stepping /\ Family = \h8000 /\ LowNibble = 5)
            => LET a == v[FieldX]
                   b == v[FieldY]
               IN  /\ err' = "nil"
                   /\ v'[\hF] = (IF a >= b THEN 1 ELSE 0)
                   /\ FieldX # \hF => v'[FieldX] = (a - b) % 256
       /\ (Stepping /\ Family = \h8000 /\ LowNibble = 7)
            => LET a == v[FieldX]
                   b == v[FieldY]
               IN  /\ err' = "nil"
                   /\ v'[\hF] = (IF b >= a THEN 1 ELSE 0)
                   /\ FieldX # \hF => v'[FieldX] = (b - a) % 256]_vars

C10_Shl ==
    [][(Stepping /\ Family = \h8000 /\ LowNibble = \hE)
        => LET a == v[FieldX]
           IN  /\ err' = "nil"
               /\ v'[\hF] = (IF a >= 128 THEN 1 ELSE 0)
               /\ FieldX # \hF => v'[FieldX] = (a * 2) % 256]_vars

---------------------------------------------------------------------------
(* The framebuffer *)

\* the bit of column c (0 the leftmost) in row r of the sprite at I
SpriteBit(r, c) == (memory[i + r] \div (2 ^ (7 - c))) % 2

\* whether the sprite of the DRW about to run covers the framebuffer cell
\* with a set bit: the cell is ((Vx+c) mod 64, (Vy+r) mod 32), row-major
Covers(cell) ==
    LET r == ((cell \div 64) - v[FieldY]) % 32
        c == ((cell % 64) - v[FieldX]) % 64
    IN  r < LowNibble /\ c < 8 /\ SpriteBit(r, c) = 1

\* the sprite of the DRW about to run lies inside memory
SpriteInMemory == i + LowNibble <= MemorySize

\* C11: a DRW Vx,Vy,n whose sprite lies inside memory toggles exactly the
\* cells ((Vx+c) mod 64, (Vy+r) mod 32) of the set bits of the sprite rows
\* memory[I+r], leaves every other cell as it was, leaves VF = 1 iff one of
\* the toggled cells was set before, else 0, and sets the dirty flag.
C11_DrawSprite ==
    [][(Stepping /\ Family = \hD000 /\ SpriteInMemory)
        => /\ err' = "nil"
           /\ \A cell \in DOMAIN display :
                display'[cell] =
                    IF Covers(cell) THEN 1 - display[cell] ELSE display[cell]
           /\ v'[\hF] = (IF \E cell \in DOMAIN display :
                               Covers(cell) /\ display[cell] = 1
                         THEN 1 ELSE 0)
           /\ drawFlag']_vars

\* the steps so far all ran the DRW the program starts with, from a clear
\* framebuffer, and the sprite has a set bit
OnlyDraws ==
    /\ steps > 0
    /\ pc = NewPC
    /\ Family = \hD000
    /\ SpriteInMemory
    /\ \E r \in 0..(LowNibble - 1), c \in 0..7 : SpriteBit(r, c) = 1

\* C12: a DRW run twice with the same operands leaves the framebuffer as it
\* was before the first; the first draw onto a clear framebuffer leaves
\* VF = 0, and the second draw of a sprite with a set bit leaves VF = 1.
C12_DoubleDraw ==
    (err = "nil" /\ OnlyDraws)
        => /\ steps % 2 = 0 => (display = ClearedDisplay /\ v[\hF] = 1)
           /\ steps % 2 = 1 => v[\hF] = 0

---------------------------------------------------------------------------
(* The keypad *)

\* a key is down: KeyDown has set its entry of keys
KeyLatched == \E k \in DOMAIN keys : keys[k] = 1

\* C14: a step on LD Vx,K with no key down fails with nothing and changes no
\* field of the machine (the machine waits, and the driver calls step
\* again); with a key down the step writes the key's number to Vx and
\* advances PC by 2.
C14_WaitKey ==
    [][(Stepping /\ Family = \hF000 /\ LowByte = \h0A)
        => /\ err' = "nil"
           /\ ~KeyLatched => UNCHANGED chipVars
           /\ KeyLatched => (v'[FieldX] = currentKey /\ pc' = pc + 2)]_vars

---------------------------------------------------------------------------
(* Loading *)

\* C15: LoadRom of an image of at most 3584 bytes leaves memory[0x200+k] the
\* k-th byte of the image and every other byte as New left it; a longer
\* image is rejected with RomTooLarge and leaves memory as New left it.
C15_LoadRom ==
    steps = 0
        => IF Len(rom) <= MemorySize - RomBase
           THEN /\ err = "nil"
                /\ \A a \in DOMAIN memory :
                     memory[a] =
                         IF a >= RomBase /\ a < RomBase + Len(rom)
                         THEN rom[a - RomBase + 1] ELSE NewMemory[a]
           ELSE /\ err = "RomTooLarge"
                /\ memory = NewMemory

---------------------------------------------------------------------------
(* Halting *)

\* C16: once a step has reported UnrecognizedOpcode the machine is halted
\* for good: no further instruction runs, so no field of the machine, no
\* result and no count of steps changes in any later step.
C16_Halted ==
    [][err = "UnrecognizedOpcode"
        => UNCHANGED <<chipVars, err, opcode, steps>>]_vars

\* C16's case: the first step has reported UnrecognizedOpcode and the loop
\* had iterations left.
C16_HaltedWitness ==
    /\ err = "UnrecognizedOpcode"
    /\ steps = 1
    /\ steps < horizon

---------------------------------------------------------------------------
(* The timers *)

\* the instruction at PC writes the timer: LD DT,Vx or LD ST,Vx
WritesDT == FetchInRange /\ Family = \hF000 /\ LowByte = \h15

WritesST == FetchInRange /\ Family = \hF000 /\ LowByte = \h18

---------------------------------------------------------------------------
(* Faults *)

\* C18: a step that fails leaves every field of the machine as it was before
\* the step: PC, SP, I, the registers, the stack, memory, the timers and the
\* framebuffer; a CALL that fails leaves SP, and a register dump, register
\* load or BCD that fails leaves memory and the registers.
C18_NoPartialStep ==
    [][err' # "nil" => UNCHANGED chipVars]_vars

---------------------------------------------------------------------------
(* Addresses *)

\* the last address a register dump, register load or BCD is to access
LastAddress ==
    i + (IF LowByte = \h33 THEN 2 ELSE FieldX)

\* C19: every memory access uses the full address it is meant for, and an
\* address outside 0..4095 is reported as MemoryOutOfBounds: the fetch
\* reads PC and PC+1, DRW reads row q of the sprite at I+q, the register
\* dump, the register load and BCD reach up to I+x or I+2, and ADD I,Vx
\* leaves I = (I + Vx) mod 4096.
C19_FullAddresses ==
    [][Running
        => /\ ~(pc + 1 < MemorySize) => err' = "MemoryOutOfBounds"
           /\ (FetchInRange /\ Family = \hD000)
                => IF SpriteInMemory
                   THEN \A q \in 0..(LowNibble - 1) :
                            SpriteAddr(i % ByteMod, q) = i + q
                   ELSE err' = "MemoryOutOfBounds"
           /\ (FetchInRange /\ Family = \hF000 /\ LowByte = \h1E)
                => i' = (i + v[FieldX]) % MemorySize
           /\ (FetchInRange /\ Family = \hF000
                 /\ LowByte \in {\h33, \h55, \h65}
                 /\ LastAddress >= MemorySize)
                => err' = "MemoryOutOfBounds"]_vars

---------------------------------------------------------------------------
(* The dirty flag *)

\* the instruction at PC is CLS or DRW
IsDraw == Opcode = \h00E0 \/ Family = \hD000

\* C20: only CLS and DRW set the dirty flag, the framebuffer is rendered
\* only when the flag is set, and rendering consumes the flag: an iteration
\* that follows a rendering one and runs no CLS or DRW does not render.
C20_DirtyFlag ==
    [][Stepping
        => /\ (drawFlag' /\ ~drawFlag) => IsDraw
           /\ rendered' => drawFlag'
           /\ (rendered /\ ~IsDraw) => ~rendered']_vars

---------------------------------------------------------------------------
(* Subroutines *)

\* the word that ends just before the address is a CALL
FollowsCall(addr) ==
    /\ addr >= 2
    /\ addr - 2 \in DOMAIN memory
    /\ memory[addr - 2] \div 16 = 2

\* C21: a RET that matches a CALL fetched at address a (the stack is not
\* empty) leaves PC = a + 2, the address of the instruction that follows the
\* CALL, so that the CALL is not run again, and leaves SP at the value it
\* had before the CALL, one below its value before the RET.
C21_RoundTrip ==
    [][(Stepping /\ Opcode = \h00EE /\ sp \in 1..(StackSize - 1))
        => /\ err' = "nil"
           /\ FollowsCall(pc')
           /\ sp' = sp - 1]_vars

===========================================================================
